---- MODULE Spec2Model ----
(***************************************************************************)
(* State machine of server.py: the bingo room/game server.                 *)
(*                                                                         *)
(* rooms and sid_to_user are the two module-level dictionaries.  Every     *)
(* Socket.IO handler is one action, run to its end without interleaving    *)
(* (the handlers hold no yield point between their reads and writes); a    *)
(* handler that raises (KeyError, IndexError) does so before it assigns    *)
(* anything, and the exception is recorded in `raised`.                    *)
(*                                                                         *)
(* A threading.Timer is either the one rooms[room]['timer'] references     *)
(* ("pending" until it fires or is cancelled, "finished" afterwards) or    *)
(* one of orphan_timers[room]: started for the room id, still pending,     *)
(* and referenced by no room since its room was deleted.  Each of them     *)
(* runs skip_turn(room) on the rooms dictionary as it is when it fires.    *)
(*                                                                         *)
(* emit() is the transport's broadcast primitive, taken to deliver from    *)
(* handlers and timers alike: the events of the last handler or timer are  *)
(* kept, in order, in `emitted`.  send_message relays a chat line and      *)
(* reads or writes nothing of rooms; it is not modelled.                   *)
(*                                                                         *)
(* The specifications share the actions and differ in who is connected     *)
(* and what is sent: Spec (two connections, numbers 1..MaxNumber),         *)
(* SpecThree (three connections, turns passing by timeout), SpecWin (two   *)
(* connections with a board each, playing the five numbers of their lines  *)
(* up to a win), SpecNames (two connections free in their display names)   *)
(* and SpecRematch (two connections that stay and play on after a win).    *)
(***************************************************************************)
EXTENDS Integers, Sequences, FiniteSets, TLC

VARIABLES rooms, sid_to_user, orphan_timers, emitted, raised

vars == <<rooms, sid_to_user, orphan_timers, emitted, raised>>

(* ------------------------------ input domains ------------------------- *)

\* Started timers that outlive their room at any one time.
MaxOrphans == 1

\* Numbers a client may send in number_selected: 1..MaxNumber.
MaxNumber == 2

Sids == {"s1", "s2", "s3"}

\* The connections of the two-player specifications.
TwoSids == {"s1", "s2"}

RoomIds == {"r1"}

Numbers == 1..MaxNumber

\* A board whose row 0 holds 1..5 (cells 0..4 of the row-major grid).
BoardRow == [i \in 1..25 |-> IF i <= 5 THEN i ELSE 100 + i]

\* A board whose column 0 holds 1..5 (cells 0, 5, 10, 15, 20).
BoardCol == [i \in 1..25 |-> IF (i - 1) % 5 = 0 THEN ((i - 1) \div 5) + 1 ELSE 200 + i]

(* ------------------------------ Python helpers ------------------------ *)

\* seq[i] of a Python list, i zero-based, negative i counting from the end.
PyIndexOK(seq, i) == -Len(seq) <= i /\ i < Len(seq)

PyGet(seq, i) == IF i >= 0 THEN seq[i + 1] ELSE seq[Len(seq) + i + 1]

\* x in list
InList(x, seq) == \E i \in 1..Len(seq) : seq[i] = x

\* list.index(x), one-based here: the first position holding x.
IndexOf(x, seq) == CHOOSE i \in 1..Len(seq) : seq[i] = x /\ \A j \in 1..(i - 1) : seq[j] # x

\* del list[idx], idx one-based here.
RemoveAt(seq, idx) == [i \in 1..(Len(seq) - 1) |-> IF i < idx THEN seq[i] ELSE seq[i + 1]]

\* A shuffle that may repeat a name and lose another.
Shuffles_any(S) == [1..Cardinality(S) -> S]

\* The orderings random.shuffle can leave a list of the names in S in.
Shuffles(S) == {p \in [1..Cardinality(S) -> S] : \A i, j \in 1..Cardinality(S) : i # j => p[i] # p[j]}

(* ------------------------------ players dict -------------------------- *)

\* rooms[room]['players'] is an insertion-ordered dict: a sequence of
\* [name, board, marked, bingo, submitted] with distinct names.
PlayerNames(players) == [i \in 1..Len(players) |-> players[i].name]

HasPlayer(players, username) == \E i \in 1..Len(players) : players[i].name = username

PlayerPos(players, username) == CHOOSE i \in 1..Len(players) : players[i].name = username

NewPlayer(username) ==
    [name |-> username, board |-> <<>>, marked |-> <<>>, bingo |-> FALSE, submitted |-> FALSE]

\* players[username] = value: an existing key keeps its position.
PutPlayer(players, username, value) ==
    IF HasPlayer(players, username)
    THEN [players EXCEPT ![PlayerPos(players, username)] = value]
    ELSE Append(players, value)

\* A leave that empties the roster.
DelPlayer_all(players, username) == <<>>

\* del players[username]
DelPlayer(players, username) == RemoveAt(players, PlayerPos(players, username))

NewRoom ==
    [players |-> <<>>, numbers_called |-> <<>>, chat |-> <<>>, game_started |-> FALSE,
     turn_order |-> <<>>, current_turn |-> 0, timer |-> "None", start_votes |-> {},
     waiting_for_players |-> TRUE]

(* ------------------------------ events -------------------------------- *)

\* update_player_list(room), evaluated on the room as it is when called.
update_player_list(rm, room) ==
    [ev |-> "update_player_list", to |-> room, players |-> PlayerNames(rm.players)]

Init ==
    /\ rooms = <<>>
    /\ sid_to_user = <<>>
    /\ orphan_timers = [r \in RoomIds |-> 0]
    /\ emitted = <<>>
    /\ raised = "none"

\* rooms with rooms[room] set to rm (created when absent).
SetRoom(room, rm) == [r \in (DOMAIN rooms) \cup {room} |-> IF r = room THEN rm ELSE rooms[r]]

BindSid(sid, username, room) ==
    [s \in (DOMAIN sid_to_user) \cup {sid} |->
        IF s = sid THEN [username |-> username, room |-> room] ELSE sid_to_user[s]]

on_create_room(sid, room, username) ==
    LET base == IF room \in DOMAIN rooms THEN rooms[room] ELSE NewRoom
        rm == [base EXCEPT !.players = PutPlayer(base.players, username, NewPlayer(username))]
    IN /\ sid_to_user' = BindSid(sid, username, room)
       /\ rooms' = SetRoom(room, rm)
       /\ emitted' = <<[ev |-> "room_created", to |-> "sid", room |-> room],
                       update_player_list(rm, room)>>
       /\ raised' = "none"
       /\ UNCHANGED orphan_timers

on_join_room(sid, room, username) ==
    /\ sid_to_user' = BindSid(sid, username, room)
    /\ UNCHANGED orphan_timers
    /\ raised' = "none"
    /\ IF room \notin DOMAIN rooms
       THEN /\ emitted' = <<[ev |-> "error", to |-> "sid", message |-> "room_missing"]>>
            /\ UNCHANGED rooms
       ELSE LET rm == [rooms[room] EXCEPT
                          !.players = PutPlayer(@, username, NewPlayer(username))]
            IN /\ rooms' = SetRoom(room, rm)
               /\ emitted' = <<[ev |-> "player_joined", to |-> room, username |-> username],
                               update_player_list(rm, room)>>

\* A disconnect that ends the game only when turn_order is left empty.
DisconnectGame_one(rm, room, username) ==
    LET inOrder == InList(username, rm.turn_order)
        idx == IndexOf(username, rm.turn_order) - 1
        order == IF inOrder THEN RemoveAt(rm.turn_order, idx + 1) ELSE rm.turn_order
        turn == IF inOrder /\ idx <= rm.current_turn
                THEN rm.current_turn - 1 ELSE rm.current_turn
        rm1 == [rm EXCEPT !.turn_order = order, !.current_turn = turn]
    IN IF Len(order) < 1
       THEN [room |-> [rm1 EXCEPT !.game_started = FALSE],
             events |-> <<[ev |-> "game_ended", to |-> room]>>]
       ELSE [room |-> rm1,
             events |-> <<[ev |-> "player_left", to |-> room, username |-> username]>>]

\* A disconnect that never moves current_turn.
DisconnectGame_still(rm, room, username) ==
    LET inOrder == InList(username, rm.turn_order)
        idx == IndexOf(username, rm.turn_order) - 1
        order == IF inOrder THEN RemoveAt(rm.turn_order, idx + 1) ELSE rm.turn_order
        rm1 == [rm EXCEPT !.turn_order = order]
    IN IF Len(order) < 2
       THEN [room |-> [rm1 EXCEPT !.game_started = FALSE],
             events |-> <<[ev |-> "game_ended", to |-> room]>>]
       ELSE [room |-> rm1,
             events |-> <<[ev |-> "player_left", to |-> room, username |-> username]>>]

\* Lines 85-96 of on_disconnect, on the room rm from which the player has
\* been deleted: the room afterwards and the events emitted.
DisconnectGame(rm, room, username) ==
    LET inOrder == InList(username, rm.turn_order)
        idx == IndexOf(username, rm.turn_order) - 1
        order == IF inOrder THEN RemoveAt(rm.turn_order, idx + 1) ELSE rm.turn_order
        turn == IF inOrder /\ idx <= rm.current_turn
                THEN rm.current_turn - 1 ELSE rm.current_turn
        rm1 == [rm EXCEPT !.turn_order = order, !.current_turn = turn]
    IN IF Len(order) < 2
       THEN [room |-> [rm1 EXCEPT !.game_started = FALSE],
             events |-> <<[ev |-> "game_ended", to |-> room]>>]
       ELSE [room |-> rm1,
             events |-> <<[ev |-> "player_left", to |-> room, username |-> username]>>]

\* True when deleting rooms[room] leaves a started timer behind that the
\* model can still count.
CanOrphan(room) == rooms[room].timer = "pending" => orphan_timers[room] < MaxOrphans

on_disconnect(sid) ==
    /\ raised' = "none"
    /\ IF sid \notin DOMAIN sid_to_user
       THEN /\ emitted' = <<>>
            /\ UNCHANGED <<rooms, sid_to_user, orphan_timers>>
       ELSE LET room == sid_to_user[sid].room
                username == sid_to_user[sid].username
            IN /\ sid_to_user' = [s \in (DOMAIN sid_to_user) \ {sid} |-> sid_to_user[s]]
               /\ IF room \in DOMAIN rooms /\ HasPlayer(rooms[room].players, username)
                  THEN LET rm == [rooms[room] EXCEPT !.players = DelPlayer(@, username)]
                       IN IF Len(rm.players) = 0
                          THEN /\ CanOrphan(room)
                               /\ rooms' = [r \in (DOMAIN rooms) \ {room} |-> rooms[r]]
                               /\ orphan_timers' =
                                     [orphan_timers EXCEPT
                                         ![room] = IF rm.timer = "pending" THEN @ + 1 ELSE @]
                               /\ emitted' = <<>>
                          ELSE /\ UNCHANGED orphan_timers
                               /\ IF rm.game_started
                                  THEN LET res == DisconnectGame(rm, room, username)
                                       IN /\ rooms' = SetRoom(room, res.room)
                                          /\ emitted' = <<update_player_list(rm, room)>>
                                                           \o res.events
                                  ELSE /\ rooms' = SetRoom(room, rm)
                                       /\ emitted' = <<update_player_list(rm, room)>>
                  ELSE /\ emitted' = <<>>
                       /\ UNCHANGED <<rooms, orphan_timers>>

\* A handler that raises before it assigns anything.
Raise(exc) ==
    /\ raised' = exc
    /\ emitted' = <<>>
    /\ UNCHANGED <<rooms, sid_to_user, orphan_timers>>

\* A handler that returns at `if not user: return`.
NoUser ==
    /\ raised' = "none"
    /\ emitted' = <<>>
    /\ UNCHANGED <<rooms, sid_to_user, orphan_timers>>

submission_status(rm) ==
    [i \in 1..Len(rm.players) |-> <<rm.players[i].name, rm.players[i].submitted>>]

on_submit_board(sid, board) ==
    IF sid \notin DOMAIN sid_to_user THEN NoUser
    ELSE LET room == sid_to_user[sid].room
             username == sid_to_user[sid].username
         IN IF room \notin DOMAIN rooms \/ ~HasPlayer(rooms[room].players, username)
            THEN Raise("KeyError")
            ELSE LET pos == PlayerPos(rooms[room].players, username)
                     rm == [rooms[room] EXCEPT
                               !.players[pos].board = board,
                               !.players[pos].marked = [i \in 1..25 |-> FALSE],
                               !.players[pos].submitted = TRUE]
                 IN /\ rooms' = SetRoom(room, rm)
                    /\ emitted' = <<[ev |-> "board_submitted", to |-> room, username |-> username],
                                    [ev |-> "update_submission_status", to |-> room,
                                     submission_status |-> submission_status(rm)]>>
                    /\ raised' = "none"
                    /\ UNCHANGED <<sid_to_user, orphan_timers>>

\* start_turn_timer(room) on the room rm: the timer the room references is
\* cancelled (which only stops one that is still pending), the new one
\* takes its place in rooms[room]['timer'] and is started, and your_turn
\* names turn_order[current_turn].
start_turn_timer(rm, room) ==
    [room |-> [rm EXCEPT !.timer = "pending"],
     events |-> <<[ev |-> "your_turn", to |-> room,
                   username |-> PyGet(rm.turn_order, rm.current_turn)]>>]

\* advance_turn that steps over the next player.
advance_turn_two(rm, room) ==
    start_turn_timer(
        [rm EXCEPT !.current_turn = (rm.current_turn + 2) % Len(rm.turn_order)], room)

\* advance_turn(room) on the room rm.
advance_turn(rm, room) ==
    start_turn_timer(
        [rm EXCEPT !.current_turn = (rm.current_turn + 1) % Len(rm.turn_order)], room)

on_start_game(sid) ==
    IF sid \notin DOMAIN sid_to_user THEN NoUser
    ELSE LET room == sid_to_user[sid].room
             username == sid_to_user[sid].username
         IN IF room \notin DOMAIN rooms THEN Raise("KeyError")
            ELSE LET rm == [rooms[room] EXCEPT !.start_votes = @ \cup {username}]
                     all_submitted == \A i \in 1..Len(rm.players) : rm.players[i].submitted
                 IN /\ raised' = "none"
                    /\ UNCHANGED <<sid_to_user, orphan_timers>>
                    /\ IF Len(rm.players) >= 2 /\ Cardinality(rm.start_votes) >= 2
                       THEN IF all_submitted
                            THEN \E order \in Shuffles({rm.players[i].name : i \in 1..Len(rm.players)}) :
                                    LET res == start_turn_timer(
                                                  [rm EXCEPT !.game_started = TRUE,
                                                             !.waiting_for_players = FALSE,
                                                             !.turn_order = order,
                                                             !.current_turn = 0], room)
                                    IN /\ rooms' = SetRoom(room, res.room)
                                       /\ emitted' = <<[ev |-> "game_started", to |-> room,
                                                        turn_order |-> order]>> \o res.events
                            ELSE /\ rooms' = SetRoom(room, rm)
                                 /\ emitted' = <<[ev |-> "waiting_for_players", to |-> room,
                                                  message |-> "wait_submit"]>>
                       ELSE /\ rooms' = SetRoom(room, rm)
                            /\ emitted' = <<[ev |-> "waiting_for_players", to |-> room,
                                             message |-> "need_two_players"]>>

\* skip_turn(room), the function of every turn timer, run with the rooms
\* dictionary rs.  The room afterwards, the events and the exception.
skip_turn(rs, room) ==
    IF room \notin DOMAIN rs
    THEN [rooms |-> rs, events |-> <<>>, raised |-> "KeyError"]
    ELSE IF ~PyIndexOK(rs[room].turn_order, rs[room].current_turn)
    THEN [rooms |-> rs, events |-> <<>>, raised |-> "IndexError"]
    ELSE LET res == advance_turn(rs[room], room)
         IN [rooms |-> [rs EXCEPT ![room] = res.room],
             events |-> <<[ev |-> "turn_skipped", to |-> room,
                           username |-> PyGet(rs[room].turn_order, rs[room].current_turn)]>>
                        \o res.events,
             raised |-> "none"]

\* The 15 seconds of the timer rooms[room] references have passed.
timer_expiry(room) ==
    /\ room \in DOMAIN rooms
    /\ rooms[room].timer = "pending"
    /\ LET res == skip_turn([rooms EXCEPT ![room].timer = "finished"], room)
       IN /\ rooms' = res.rooms
          /\ emitted' = res.events
          /\ raised' = res.raised
    /\ UNCHANGED <<sid_to_user, orphan_timers>>

\* The 15 seconds of a timer no room references any more have passed.
orphan_expiry(room) ==
    /\ orphan_timers[room] > 0
    /\ orphan_timers' = [orphan_timers EXCEPT ![room] = @ - 1]
    /\ LET res == skip_turn(rooms, room)
       IN /\ rooms' = res.rooms
          /\ emitted' = res.events
          /\ raised' = res.raised
    /\ UNCHANGED sid_to_user

\* check_bingo(marked): one of the 12 lines is fully marked.  Cells are
\* numbered from 1 here, from 0 in the source.
lines ==
    <<<<1, 2, 3, 4, 5>>, <<6, 7, 8, 9, 10>>, <<11, 12, 13, 14, 15>>,
      <<16, 17, 18, 19, 20>>, <<21, 22, 23, 24, 25>>,
      <<1, 6, 11, 16, 21>>, <<2, 7, 12, 17, 22>>, <<3, 8, 13, 18, 23>>,
      <<4, 9, 14, 19, 24>>, <<5, 10, 15, 20, 25>>,
      <<1, 7, 13, 19, 25>>, <<5, 9, 13, 17, 21>>>>

check_bingo(marked) ==
    \E l \in 1..Len(lines) : \A k \in 1..5 : marked[lines[l][k]]

\* The marking loop with a break in mind: the first completed line keeps
\* `winner`.
RECURSIVE MarkLoop_first(_, _, _, _)
MarkLoop_first(players, i, number, winner) ==
    IF i > Len(players) THEN [players |-> players, winner |-> winner]
    ELSE IF InList(number, players[i].board)
    THEN LET index == IndexOf(number, players[i].board)
             marked == [players[i].marked EXCEPT ![index] = TRUE]
         IN IF check_bingo(marked)
            THEN MarkLoop_first([players EXCEPT ![i].marked = marked, ![i].bingo = TRUE],
                                i + 1, number,
                                IF winner = "None" THEN players[i].name ELSE winner)
            ELSE MarkLoop_first([players EXCEPT ![i].marked = marked], i + 1, number, winner)
    ELSE MarkLoop_first(players, i + 1, number, winner)

\* The marking loop of on_number_selected (lines 187-195) from player i on:
\* the players afterwards and the value of `winner` when the loop ends.
RECURSIVE MarkLoop(_, _, _, _)
MarkLoop(players, i, number, winner) ==
    IF i > Len(players) THEN [players |-> players, winner |-> winner]
    ELSE IF InList(number, players[i].board)
    THEN LET index == IndexOf(number, players[i].board)
             marked == [players[i].marked EXCEPT ![index] = TRUE]
         IN IF check_bingo(marked)
            THEN MarkLoop([players EXCEPT ![i].marked = marked, ![i].bingo = TRUE],
                          i + 1, number, players[i].name)
            ELSE MarkLoop([players EXCEPT ![i].marked = marked], i + 1, number, winner)
    ELSE MarkLoop(players, i + 1, number, winner)

\* Lines 185-208 of on_number_selected: an accepted call on the room rm.
CallNumber(rm, room, username, number) ==
    LET called == Append(rm.numbers_called, number)
        loop == MarkLoop(rm.players, 1, number, "None")
        rm1 == [rm EXCEPT !.numbers_called = called, !.players = loop.players]
        number_called == [ev |-> "number_called", to |-> room, number |-> number,
                          winner |-> loop.winner, username |-> username,
                          numbers_called |-> called]
    IN IF loop.winner # "None"
       THEN [room |-> [rm1 EXCEPT !.game_started = FALSE,
                                  !.timer = IF @ = "None" THEN "None" ELSE "finished"],
             events |-> <<number_called,
                          [ev |-> "game_over", to |-> room, winner |-> loop.winner]>>]
       ELSE LET res == advance_turn(rm1, room)
            IN [room |-> res.room, events |-> <<number_called>> \o res.events]

\* The turn check left out.
IsCurrentPlayer_anyone(rm, username) == TRUE

\* Line 178 negated: the caller is turn_order[current_turn].
IsCurrentPlayer(rm, username) == username = PyGet(rm.turn_order, rm.current_turn)

\* The duplicate check left out.
AlreadyCalled_never(rm, number) == FALSE

\* Line 182: the number is in numbers_called.
AlreadyCalled(rm, number) == InList(number, rm.numbers_called)

on_number_selected(sid, number) ==
    IF sid \notin DOMAIN sid_to_user THEN NoUser
    ELSE LET room == sid_to_user[sid].room
             username == sid_to_user[sid].username
         IN IF room \notin DOMAIN rooms THEN Raise("KeyError")
            ELSE IF ~PyIndexOK(rooms[room].turn_order, rooms[room].current_turn)
            THEN Raise("IndexError")
            ELSE /\ raised' = "none"
                 /\ UNCHANGED <<sid_to_user, orphan_timers>>
                 /\ IF ~IsCurrentPlayer(rooms[room], username)
                    THEN /\ emitted' = <<[ev |-> "error", to |-> "sid",
                                          message |-> "not_your_turn"]>>
                         /\ UNCHANGED rooms
                    ELSE IF AlreadyCalled(rooms[room], number)
                    THEN /\ emitted' = <<[ev |-> "error", to |-> "sid",
                                          message |-> "already_called"]>>
                         /\ UNCHANGED rooms
                    ELSE LET res == CallNumber(rooms[room], room, username, number)
                         IN /\ rooms' = SetRoom(room, res.room)
                            /\ emitted' = res.events

\* A reset that forgets the bingo flag.
ResetPlayer_keepbingo(player) ==
    [player EXCEPT !.board = <<>>, !.marked = <<>>, !.submitted = FALSE]

\* The reset of one player in on_restart_game (lines 243-247).
ResetPlayer(player) ==
    [player EXCEPT !.board = <<>>, !.marked = <<>>, !.bingo = FALSE, !.submitted = FALSE]

on_restart_game(sid) ==
    IF sid \notin DOMAIN sid_to_user THEN NoUser
    ELSE LET room == sid_to_user[sid].room
         IN /\ raised' = "none"
            /\ UNCHANGED <<sid_to_user, orphan_timers>>
            /\ IF room \notin DOMAIN rooms
               THEN /\ emitted' = <<[ev |-> "error", to |-> "sid", message |-> "room_missing"]>>
                    /\ UNCHANGED rooms
               ELSE /\ rooms' = SetRoom(room,
                          [rooms[room] EXCEPT
                              !.game_started = FALSE,
                              !.numbers_called = <<>>,
                              !.turn_order = <<>>,
                              !.current_turn = 0,
                              !.start_votes = {},
                              !.waiting_for_players = TRUE,
                              !.players = [i \in 1..Len(@) |-> ResetPlayer(@[i])]])
                    /\ emitted' = <<[ev |-> "restart_game", to |-> room]>>

\* The connections, and the name each one signs in with.
NamesOf(sid) == IF sid = "s1" THEN {"a"} ELSE IF sid = "s2" THEN {"b"} ELSE {"c"}

\* The numbers on row 0 of BoardRow and column 0 of BoardCol.
LineNumbers == {1, 2, 3, 4, 5}

\* The numbers of LineNumbers not below any number called in the room of
\* connection sid: the calls of a game come in increasing order, or repeat
\* the last one.
RisingNumber(sid) ==
    IF sid \in DOMAIN sid_to_user /\ sid_to_user[sid].room \in DOMAIN rooms
    THEN LET called == rooms[sid_to_user[sid].room].numbers_called
         IN {n \in LineNumbers : \A i \in 1..Len(called) : called[i] <= n}
    ELSE {1}

\* Two connections with one board, selecting any number of 1..MaxNumber.
Next ==
    \/ \E sid \in TwoSids, room \in RoomIds : \E username \in NamesOf(sid) :
          on_create_room(sid, room, username)
    \/ \E sid \in TwoSids, room \in RoomIds : \E username \in NamesOf(sid) :
          on_join_room(sid, room, username)
    \/ \E sid \in TwoSids : on_disconnect(sid)
    \/ \E sid \in TwoSids : on_submit_board(sid, BoardRow)
    \/ \E sid \in TwoSids : on_start_game(sid)
    \/ \E sid \in TwoSids, number \in Numbers : on_number_selected(sid, number)
    \/ \E sid \in TwoSids : on_restart_game(sid)
    \/ \E room \in RoomIds : timer_expiry(room)
    \/ \E room \in RoomIds : orphan_expiry(room)

Spec == Init /\ [][Next]_vars

\* Three connections with one board; nobody selects a number, the turns
\* pass by timeout.
NextThree ==
    \/ \E sid \in Sids, room \in RoomIds : \E username \in NamesOf(sid) :
          on_create_room(sid, room, username)
    \/ \E sid \in Sids, room \in RoomIds : \E username \in NamesOf(sid) :
          on_join_room(sid, room, username)
    \/ \E sid \in Sids : on_disconnect(sid)
    \/ \E sid \in Sids : on_submit_board(sid, BoardRow)
    \/ \E sid \in Sids : on_start_game(sid)
    \/ \E sid \in Sids : on_restart_game(sid)
    \/ \E room \in RoomIds : timer_expiry(room)
    \/ \E room \in RoomIds : orphan_expiry(room)

SpecThree == Init /\ [][NextThree]_vars

\* Two connections, s1 with BoardRow and s2 with BoardCol, playing a game
\* to its end.
NextWin ==
    \/ \E sid \in TwoSids, room \in RoomIds : \E username \in NamesOf(sid) :
          on_create_room(sid, room, username)
    \/ \E sid \in TwoSids, room \in RoomIds : \E username \in NamesOf(sid) :
          on_join_room(sid, room, username)
    \/ \E sid \in TwoSids : on_disconnect(sid)
    \/ \E sid \in TwoSids :
          on_submit_board(sid, IF sid = "s1" THEN BoardRow ELSE BoardCol)
    \/ \E sid \in TwoSids : on_start_game(sid)
    \/ \E sid \in TwoSids : \E number \in RisingNumber(sid) :
          on_number_selected(sid, number)
    \/ \E sid \in TwoSids : on_restart_game(sid)
    \/ \E room \in RoomIds : timer_expiry(room)
    \/ \E room \in RoomIds : orphan_expiry(room)

SpecWin == Init /\ [][NextWin]_vars

\* The display names a connection may sign in with when names are free.
Usernames == {"a", "b"}

\* Two connections, each signing in under either name, with one board.
NextNames ==
    \/ \E sid \in TwoSids, room \in RoomIds, username \in Usernames :
          on_create_room(sid, room, username)
    \/ \E sid \in TwoSids, room \in RoomIds, username \in Usernames :
          on_join_room(sid, room, username)
    \/ \E sid \in TwoSids : on_disconnect(sid)
    \/ \E sid \in TwoSids : on_submit_board(sid, BoardRow)
    \/ \E sid \in TwoSids : on_start_game(sid)
    \/ \E sid \in TwoSids, number \in Numbers : on_number_selected(sid, number)
    \/ \E sid \in TwoSids : on_restart_game(sid)
    \/ \E room \in RoomIds : timer_expiry(room)
    \/ \E room \in RoomIds : orphan_expiry(room)

SpecNames == Init /\ [][NextNames]_vars

\* The numbers of LineNumbers, and one more that is on BoardRow alone
\* (cell 5, row 1).
RematchNumbers == LineNumbers \cup {106}

\* The numbers of RematchNumbers not below any number called in the room
\* of connection sid.
RisingRematchNumber(sid) ==
    IF sid \in DOMAIN sid_to_user /\ sid_to_user[sid].room \in DOMAIN rooms
    THEN LET called == rooms[sid_to_user[sid].room].numbers_called
         IN {n \in RematchNumbers : \A i \in 1..Len(called) : called[i] <= n}
    ELSE {1}

\* Two connections that sign in once and stay, s1 with BoardRow and s2
\* with BoardCol: they play, vote and play on, with no restart.
NextRematch ==
    \/ \E sid \in TwoSids, room \in RoomIds : \E username \in NamesOf(sid) :
          /\ sid \notin DOMAIN sid_to_user
          /\ on_create_room(sid, room, username)
    \/ \E sid \in TwoSids :
          on_submit_board(sid, IF sid = "s1" THEN BoardRow ELSE BoardCol)
    \/ \E sid \in TwoSids : on_start_game(sid)
    \/ \E sid \in TwoSids : \E number \in RisingRematchNumber(sid) :
          on_number_selected(sid, number)
    \/ \E room \in RoomIds : timer_expiry(room)

SpecRematch == Init /\ [][NextRematch]_vars

(* ------------------------------ properties ---------------------------- *)

\* The last handler emitted an event named ev.
Emits(ev) == \E i \in 1..Len(emitted) : emitted[i].ev = ev

\* The timers started for room and neither fired nor cancelled.
PendingTimers(room) ==
    orphan_timers[room]
        + (IF room \in DOMAIN rooms /\ rooms[room].timer = "pending" THEN 1 ELSE 0)

\* A timer bound to room has expired.
ExpiryStep(room) == timer_expiry(room) \/ orphan_expiry(room)

\* C1: whenever the game of a room is started, 0 <= current_turn <
\* len(turn_order); a disconnect of the player at index 0 while
\* current_turn is 0 does not make the index negative.
C1_TurnIndexInRange ==
    \A room \in DOMAIN rooms :
        rooms[room].game_started =>
            /\ 0 <= rooms[room].current_turn
            /\ rooms[room].current_turn < Len(rooms[room].turn_order)

\* C2: turn_order holds no name twice, and every name in it is a key of the
\* room's players, also after a game has ended and a player has left.
C2_TurnOrderWithinPlayers ==
    \A room \in DOMAIN rooms :
        LET order == rooms[room].turn_order
        IN /\ \A i, j \in 1..Len(order) : i # j => order[i] # order[j]
           /\ \A i \in 1..Len(order) : HasPlayer(rooms[room].players, order[i])

\* C3: a timer expiry never acts on a room whose game is not started (it
\* was won, force-ended by a disconnect, restarted, or the room was
\* destroyed): it emits no turn_skipped and changes nothing of the room.
C3_NoExpiryAfterCancel ==
    [][\A room \in RoomIds :
          (/\ ExpiryStep(room)
           /\ room \in DOMAIN rooms => ~rooms[room].game_started)
          => /\ ~Emits("turn_skipped")'
             /\ room \in DOMAIN rooms =>
                  /\ room \in DOMAIN rooms'
                  /\ rooms'[room].current_turn = rooms[room].current_turn
                  /\ rooms'[room].timer # "pending"]_vars

\* C4: at most one timer is pending for a room id, and none that the room
\* of that id does not reference (left by a destroyed room of the same id).
C4_AtMostOneTimer ==
    \A room \in RoomIds :
        /\ PendingTimers(room) <= 1
        /\ orphan_timers[room] = 0

\* The connection sid is bound to a room that exists.
InRoom(sid) == sid \in DOMAIN sid_to_user /\ sid_to_user[sid].room \in DOMAIN rooms

RoomOf(sid) == rooms[sid_to_user[sid].room]

\* C5: a number_selected from a player who is not turn_order[current_turn]
\* (or while there is no such player) is rejected: it emits only the
\* not-your-turn error, or raises, and leaves rooms and the timers as they
\* were; numbers_called only ever grows by the number the current turn
\* holder sent.
C5_OnlyTurnHolderCalls ==
    [][/\ \A sid \in TwoSids, number \in Numbers :
             (/\ InRoom(sid)
              /\ PyIndexOK(RoomOf(sid).turn_order, RoomOf(sid).current_turn)
                   => sid_to_user[sid].username
                        # PyGet(RoomOf(sid).turn_order, RoomOf(sid).current_turn)
              /\ on_number_selected(sid, number))
             => /\ UNCHANGED <<rooms, orphan_timers>>
                /\ IF PyIndexOK(RoomOf(sid).turn_order, RoomOf(sid).current_turn)
                   THEN /\ raised' = "none"
                        /\ Len(emitted') = 1
                        /\ emitted'[1].ev = "error"
                        /\ emitted'[1].message = "not_your_turn"
                   ELSE raised' = "IndexError" /\ emitted' = <<>>
       /\ \A room \in (DOMAIN rooms) \cap (DOMAIN rooms') :
             (/\ rooms'[room].numbers_called # rooms[room].numbers_called
              /\ rooms'[room].numbers_called # <<>>)
             => /\ PyIndexOK(rooms[room].turn_order, rooms[room].current_turn)
                /\ Len(emitted') >= 1
                /\ emitted'[1].ev = "number_called"
                /\ emitted'[1].username
                     = PyGet(rooms[room].turn_order, rooms[room].current_turn)
                /\ rooms'[room].numbers_called
                     = Append(rooms[room].numbers_called, emitted'[1].number)]_vars

\* A call has just been rejected as out of turn during a game.
C5_Witness ==
    /\ Len(emitted) = 1
    /\ emitted[1].ev = "error"
    /\ emitted[1].message = "not_your_turn"
    /\ \E room \in DOMAIN rooms :
          rooms[room].game_started /\ rooms[room].numbers_called # <<>>

\* C6: number_selected is accepted only while the game is started: when it
\* is not (a call has produced a winner, the game was force-ended, or it
\* never began) the call changes nothing of the room.
C6_NoCallUnlessStarted ==
    [][\A sid \in TwoSids, number \in Numbers :
          (/\ InRoom(sid)
           /\ ~RoomOf(sid).game_started
           /\ on_number_selected(sid, number))
          => /\ UNCHANGED rooms
             /\ ~Emits("number_called")']_vars

\* Players (positions in the roster) for whom calling number completes a
\* line: the number is on the board and, with its cell marked, one of the
\* 12 lines is fully marked.
Completers(rm, number) ==
    {i \in 1..Len(rm.players) :
        /\ \E c \in 1..Len(rm.players[i].board) : rm.players[i].board[c] = number
        /\ LET c == CHOOSE c \in 1..25 :
                       /\ rm.players[i].board[c] = number
                       /\ \A d \in 1..(c - 1) : rm.players[i].board[d] # number
           IN \E l \in 1..12 :
                 \A k \in 1..5 : lines[l][k] = c \/ rm.players[i].marked[lines[l][k]]}

\* A call was accepted in room, and it completed a line for two players or
\* more (an action: it reads the call from the events emitted).
TieCall(room) ==
    /\ room \in (DOMAIN rooms) \cap (DOMAIN rooms')
    /\ Len(emitted') >= 1
    /\ emitted'[1].ev = "number_called"
    /\ Cardinality(Completers(rooms[room], emitted'[1].number)) >= 2

WinnerIs(room, i) ==
    /\ emitted'[1].winner = rooms[room].players[i].name
    /\ Len(emitted') = 2
    /\ emitted'[2].ev = "game_over"
    /\ emitted'[2].winner = rooms[room].players[i].name

NoDuplicates(seq) == \A i, j \in 1..Len(seq) : i # j => seq[i] # seq[j]

\* C8: numbers_called never holds a number twice and only grows by
\* appending; a number_selected of the turn holder for a number already
\* called emits only the already-called error and leaves rooms and the
\* timers as they were; the sequence is emptied by restart_game only.
C8_CallsUniqueAppendOnly ==
    [][/\ \A room \in DOMAIN rooms' : NoDuplicates(rooms'[room].numbers_called)
       /\ \A room \in (DOMAIN rooms) \cap (DOMAIN rooms') :
             LET old == rooms[room].numbers_called
                 new == rooms'[room].numbers_called
             IN \/ new = old
                \/ /\ Len(new) = Len(old) + 1
                   /\ \A i \in 1..Len(old) : new[i] = old[i] /\ new[i] # new[Len(new)]
                \/ new = <<>> /\ Emits("restart_game")'
       /\ \A sid \in TwoSids, number \in Numbers :
             (/\ InRoom(sid)
              /\ PyIndexOK(RoomOf(sid).turn_order, RoomOf(sid).current_turn)
              /\ sid_to_user[sid].username
                   = PyGet(RoomOf(sid).turn_order, RoomOf(sid).current_turn)
              /\ \E i \in 1..Len(RoomOf(sid).numbers_called) :
                    RoomOf(sid).numbers_called[i] = number
              /\ on_number_selected(sid, number))
             => /\ UNCHANGED <<rooms, orphan_timers>>
                /\ raised' = "none"
                /\ Len(emitted') = 1
                /\ emitted'[1].ev = "error"
                /\ emitted'[1].message = "already_called"]_vars

\* The turn holder has just been refused a number that was called before.
C8_Witness ==
    /\ Len(emitted) = 1
    /\ emitted[1].ev = "error"
    /\ emitted[1].message = "already_called"
    /\ \E room \in DOMAIN rooms :
          rooms[room].game_started /\ Len(rooms[room].numbers_called) >= 2

\* C9: a timer expiry during a game emits turn_skipped for the player at
\* turn_order[current_turn], moves current_turn to (current_turn + 1) mod
\* len(turn_order), starts a new timer and emits your_turn for the player
\* at the new index.
C9_ExpiryAdvancesByOne ==
    [][\A room \in RoomIds :
          (/\ room \in DOMAIN rooms
           /\ rooms[room].game_started
           /\ ExpiryStep(room))
          => LET order == rooms[room].turn_order
                 turn == rooms[room].current_turn
             IN /\ PyIndexOK(order, turn)
                /\ raised' = "none"
                /\ Len(emitted') = 2
                /\ emitted'[1].ev = "turn_skipped"
                /\ emitted'[1].username = PyGet(order, turn)
                /\ emitted'[2].ev = "your_turn"
                /\ emitted'[2].username = order[((turn + 1) % Len(order)) + 1]
                /\ room \in DOMAIN rooms'
                /\ rooms'[room].current_turn = (turn + 1) % Len(order)
                /\ rooms'[room].turn_order = order
                /\ rooms'[room].game_started
                /\ rooms'[room].timer = "pending"]_vars

\* An expiry has just skipped the last player of turn_order during a game:
\* the index is back at 0.
C9_Witness ==
    /\ Len(emitted) = 2
    /\ emitted[1].ev = "turn_skipped"
    /\ emitted[2].ev = "your_turn"
    /\ \E room \in DOMAIN rooms :
          /\ rooms[room].game_started
          /\ rooms[room].current_turn = 0
          /\ emitted[1].username
               = rooms[room].turn_order[Len(rooms[room].turn_order)]
          /\ emitted[2].username = rooms[room].turn_order[1]

\* C10: when the current turn holder disconnects during a game and at
\* least 2 players remain in turn_order, the player is removed from
\* turn_order, current_turn designates the player who followed, and a fresh
\* turn (your_turn and a new pending timer) is started for that player,
\* with no turn_skipped.
C10_HolderLeaveHandsOver ==
    [][\A sid \in Sids :
          (/\ InRoom(sid)
           /\ RoomOf(sid).game_started
           /\ HasPlayer(RoomOf(sid).players, sid_to_user[sid].username)
           /\ PyIndexOK(RoomOf(sid).turn_order, RoomOf(sid).current_turn)
           /\ PyGet(RoomOf(sid).turn_order, RoomOf(sid).current_turn)
                = sid_to_user[sid].username
           /\ Len(RoomOf(sid).turn_order) >= 3
           /\ on_disconnect(sid))
          => LET room == sid_to_user[sid].room
                 order == rooms[room].turn_order
                 pos == CHOOSE i \in 1..Len(order) : order[i] = sid_to_user[sid].username
                 follower == order[(pos % Len(order)) + 1]
             IN /\ room \in DOMAIN rooms'
                /\ \A i \in 1..Len(rooms'[room].turn_order) :
                      rooms'[room].turn_order[i] # sid_to_user[sid].username
                /\ PyIndexOK(rooms'[room].turn_order, rooms'[room].current_turn)
                /\ PyGet(rooms'[room].turn_order, rooms'[room].current_turn) = follower
                /\ \E i \in 1..Len(emitted') :
                      emitted'[i].ev = "your_turn" /\ emitted'[i].username = follower
                /\ rooms'[room].timer = "pending"
                /\ ~Emits("turn_skipped")']_vars

\* C11: a room id is in rooms exactly while the room has a player: every
\* room of the registry has at least one player, and a room leaves the
\* registry only in the disconnect of the one player it had left.
C11_RoomIffPlayers ==
    [][/\ \A room \in DOMAIN rooms' : Len(rooms'[room].players) >= 1
       /\ \A room \in (DOMAIN rooms) \ (DOMAIN rooms') :
             /\ Len(rooms[room].players) = 1
             /\ \E sid \in DOMAIN sid_to_user :
                   /\ sid_to_user[sid].room = room
                   /\ sid_to_user[sid].username = rooms[room].players[1].name
                   /\ on_disconnect(sid)]_vars

\* The room of a running game has been destroyed by the leaving of its
\* last player, and a connection has since asked to join it.
C11_Witness ==
    /\ \E room \in RoomIds : room \notin DOMAIN rooms /\ orphan_timers[room] = 1
    /\ Len(emitted) = 1
    /\ emitted[1].ev = "error"
    /\ emitted[1].message = "room_missing"

\* The start condition of a room whose start_votes are votes.
StartCondition(rm, votes) ==
    /\ Len(rm.players) >= 2
    /\ Cardinality(votes) >= 2
    /\ \A i \in 1..Len(rm.players) : rm.players[i].submitted

\* C12: a start_game vote starts the game exactly when, with the vote
\* added, the room has 2 players or more, 2 start votes or more and every
\* player has submitted a board.  On start turn_order is a permutation of
\* the players, current_turn is 0, game_started and your_turn (for
\* turn_order[0]) are emitted and a timer is pending; otherwise nothing but
\* start_votes changes.  (Every start_game of a connection in a room emits
\* game_started or waiting_for_players and leaves the connections and the
\* unreferenced timers alone.)
C12_StartExactlyWhenReady ==
    [][\A sid \in Sids :
          (/\ InRoom(sid)
           /\ Emits("game_started")' \/ Emits("waiting_for_players")'
           /\ UNCHANGED <<sid_to_user, orphan_timers>>
           /\ on_start_game(sid))
          => LET room == sid_to_user[sid].room
                 old == rooms[room]
                 new == rooms'[room]
                 votes == old.start_votes \cup {sid_to_user[sid].username}
             IN /\ new.start_votes = votes
                /\ new.players = old.players
                /\ IF StartCondition(old, votes)
                   THEN /\ new.game_started
                        /\ Len(new.turn_order) = Len(old.players)
                        /\ NoDuplicates(new.turn_order)
                        /\ \A i \in 1..Len(old.players) :
                              InList(old.players[i].name, new.turn_order)
                        /\ new.current_turn = 0
                        /\ new.timer = "pending"
                        /\ Len(emitted') = 2
                        /\ emitted'[1].ev = "game_started"
                        /\ emitted'[1].turn_order = new.turn_order
                        /\ emitted'[2].ev = "your_turn"
                        /\ emitted'[2].username = new.turn_order[1]
                   ELSE /\ new = [old EXCEPT !.start_votes = votes]
                        /\ ~Emits("game_started")'
                        /\ ~Emits("your_turn")']_vars

\* A game of three players has just been started on two votes.
C12_Witness ==
    /\ Len(emitted) = 2
    /\ emitted[1].ev = "game_started"
    /\ \E room \in DOMAIN rooms :
          /\ rooms[room].game_started
          /\ Len(rooms[room].players) = 3
          /\ Len(rooms[room].turn_order) = 3
          /\ Cardinality(rooms[room].start_votes) = 2

\* C13: a submit_board while the game of the room is started is rejected
\* and changes neither the board nor the marks of the player; in
\* particular it never clears a mark earned during the game.
C13_MarksKeptDuringGame ==
    [][\A sid \in TwoSids :
          (/\ InRoom(sid)
           /\ RoomOf(sid).game_started
           /\ HasPlayer(RoomOf(sid).players, sid_to_user[sid].username)
           /\ on_submit_board(sid, BoardRow))
          => LET room == sid_to_user[sid].room
                 pos == PlayerPos(rooms[room].players, sid_to_user[sid].username)
             IN \A c \in 1..Len(rooms[room].players[pos].marked) :
                   rooms[room].players[pos].marked[c]
                      => rooms'[room].players[pos].marked[c]]_vars

\* C14: a create_room or join_room under a display name that is already a
\* player of the room fails with an error and leaves that player's record
\* (board, marks, submitted and bingo flags) as it was.  Stated for a
\* connection that is not itself signed in to the room under that name.
C14_DuplicateNameRejected ==
    [][\A sid \in TwoSids, room \in RoomIds, username \in Usernames :
          (/\ room \in DOMAIN rooms
           /\ HasPlayer(rooms[room].players, username)
           /\ ~(/\ sid \in DOMAIN sid_to_user
                /\ sid_to_user[sid] = [username |-> username, room |-> room])
           /\ on_create_room(sid, room, username) \/ on_join_room(sid, room, username))
          => /\ Emits("error")'
             /\ room \in DOMAIN rooms'
             /\ HasPlayer(rooms'[room].players, username)
             /\ rooms'[room].players[PlayerPos(rooms'[room].players, username)]
                  = rooms[room].players[PlayerPos(rooms[room].players, username)]]_vars

\* C15: restart_game on a room that exists, whatever its phase, leaves
\* numbers_called and turn_order empty, current_turn 0, start_votes empty,
\* game_started False and every player with board [], marked [], bingo
\* False and submitted False; the players of the room are the same.
C15_RestartResets ==
    [][\A sid \in TwoSids :
          (/\ InRoom(sid)
           /\ Emits("restart_game")'
           /\ on_restart_game(sid))
          => LET old == RoomOf(sid)
                 new == rooms'[sid_to_user[sid].room]
             IN /\ new.numbers_called = <<>>
                /\ new.turn_order = <<>>
                /\ new.current_turn = 0
                /\ new.start_votes = {}
                /\ ~new.game_started
                /\ PlayerNames(new.players) = PlayerNames(old.players)
                /\ \A i \in 1..Len(new.players) :
                      /\ new.players[i].board = <<>>
                      /\ new.players[i].marked = <<>>
                      /\ ~new.players[i].bingo
                      /\ ~new.players[i].submitted]_vars

\* A room of two players has just been restarted while a turn timer was
\* running.
C15_Witness ==
    /\ emitted = <<[ev |-> "restart_game", to |-> "r1"]>>
    /\ "r1" \in DOMAIN rooms
    /\ Len(rooms["r1"].players) = 2
    /\ rooms["r1"].timer = "pending"
    /\ rooms["r1"].numbers_called = <<>>
    /\ ~rooms["r1"].game_started

\* C16: a turn is ended at most once.  The expiry of a timer that has been
\* superseded (it was started for a room that was since destroyed, and the
\* room now under its id references a timer of its own, or none) is a
\* no-op: it emits no turn_skipped for a player whose turn it did not time,
\* does not advance current_turn and leaves the room's own timer alone.
C16_StaleExpiryNoOp ==
    [][\A room \in RoomIds :
          orphan_expiry(room)
             => /\ ~Emits("turn_skipped")'
                /\ UNCHANGED rooms]_vars

\* C17: a started game has at least 2 names in turn_order in every state;
\* a disconnect that leaves fewer than 2 names in turn_order of a started
\* game ends it in the same step: game_started is False afterwards and
\* game_ended is emitted.
C17_StartedGameHasTwo ==
    [][/\ \A room \in DOMAIN rooms' :
             rooms'[room].game_started => Len(rooms'[room].turn_order) >= 2
       /\ \A sid \in Sids :
             (/\ InRoom(sid)
              /\ RoomOf(sid).game_started
              /\ on_disconnect(sid)
              /\ sid_to_user[sid].room \in DOMAIN rooms'
              /\ Len(rooms'[sid_to_user[sid].room].turn_order) < 2)
             => /\ ~rooms'[sid_to_user[sid].room].game_started
                /\ Emits("game_ended")']_vars

\* A disconnect has just ended a running game: one name is left in
\* turn_order, and the turn timer is still pending.
C17_Witness ==
    /\ Emits("game_ended")
    /\ \E room \in DOMAIN rooms :
          /\ ~rooms[room].game_started
          /\ Len(rooms[room].turn_order) = 1
          /\ Len(rooms[room].players) = 1
          /\ rooms[room].timer = "pending"

\* C18: when a player who is not turn_order[current_turn] disconnects
\* during a game and 2 names or more remain in turn_order, the player
\* designated by current_turn is the same after the disconnect as before,
\* whether the leaver stood before or after that player in turn_order (or
\* was not in it).
C18_OtherLeaveKeepsHolder ==
    [][\A sid \in Sids :
          (/\ InRoom(sid)
           /\ RoomOf(sid).game_started
           /\ HasPlayer(RoomOf(sid).players, sid_to_user[sid].username)
           /\ PyIndexOK(RoomOf(sid).turn_order, RoomOf(sid).current_turn)
           /\ PyGet(RoomOf(sid).turn_order, RoomOf(sid).current_turn)
                # sid_to_user[sid].username
           /\ on_disconnect(sid)
           /\ sid_to_user[sid].room \in DOMAIN rooms'
           /\ Len(rooms'[sid_to_user[sid].room].turn_order) >= 2)
          => LET old == RoomOf(sid)
                 new == rooms'[sid_to_user[sid].room]
             IN /\ new.game_started
                /\ PyIndexOK(new.turn_order, new.current_turn)
                /\ PyGet(new.turn_order, new.current_turn)
                     = PyGet(old.turn_order, old.current_turn)
                /\ ~InList(sid_to_user[sid].username, new.turn_order)]_vars

\* A player has just left a game that goes on with two, and the turn is
\* with the second of them.
C18_Witness ==
    /\ Emits("player_left")
    /\ \E room \in DOMAIN rooms :
          /\ rooms[room].game_started
          /\ Len(rooms[room].turn_order) = 2
          /\ rooms[room].current_turn = 1

\* A call has been accepted in room and has declared a winner (an action:
\* it reads the call from the events emitted).
WinnerDeclared(room) ==
    /\ room \in (DOMAIN rooms) \cap (DOMAIN rooms')
    /\ Len(emitted') >= 1
    /\ emitted'[1].ev = "number_called"
    /\ emitted'[1].to = room
    /\ emitted'[1].winner # "None"

\* C19: whenever a call declares a winner, the winner's board has one of
\* the 12 lines all of whose cells are marked and hold numbers of
\* numbers_called, and the line is one of the current game: the winner did
\* not enter the call, in a started game, with a line already complete,
\* left over from the game before.
C19_WinnerOnCurrentGame ==
    [][\A room \in RoomIds :
          WinnerDeclared(room) =>
             LET name == emitted'[1].winner
                 before == rooms[room].players[PlayerPos(rooms[room].players, name)]
                 after == rooms'[room].players[PlayerPos(rooms'[room].players, name)]
             IN /\ \E l \in 1..Len(lines) : \A k \in 1..5 :
                      /\ after.marked[lines[l][k]]
                      /\ InList(after.board[lines[l][k]], rooms'[room].numbers_called)
                /\ rooms[room].game_started => ~check_bingo(before.marked)]_vars

\* C20: every step that takes a room into the started state begins a fresh
\* game: right after it numbers_called is empty and no player has a marked
\* cell or the bingo flag, also when the game before ended with a winner
\* and nobody asked for a restart.
C20_StartIsFresh ==
    [][\A room \in DOMAIN rooms' :
          (/\ rooms'[room].game_started
           /\ room \in DOMAIN rooms => ~rooms[room].game_started)
          => /\ rooms'[room].numbers_called = <<>>
             /\ \A i \in 1..Len(rooms'[room].players) :
                   /\ ~rooms'[room].players[i].bingo
                   /\ \A c \in 1..Len(rooms'[room].players[i].marked) :
                         ~rooms'[room].players[i].marked[c]]_vars

====
